---- MODULE Spec2Model ----
(***************************************************************************)
(* A model of deduplicate.py: the manifest parser (iter_hash_entries), the *)
(* equivalence verifier (files_equivalent and the functions under it), the *)
(* reconciler loop of deduplicate_paths and the planner try_delete.        *)
(*                                                                         *)
(* Text is modelled as a sequence of atoms (a name, a blank " ", a "/", a  *)
(* "\\", a "#"), a path as the sequence of its segments, a file's content  *)
(* as its size and the set of the offsets that hold a non-zero byte.       *)
(***************************************************************************)
EXTENDS Integers, Sequences, FiniteSets, TLC

VARIABLES
    args,       \* the parsed command line (argparse.Namespace)
    hashes,     \* directory -> the lines of its hashes.txt
    disk,       \* resolved file path -> content, or NoFile
    pc,         \* "main", "roots" (the loops of deduplicate_paths), "exit"
    base_index, \* the outer loop's index into base_paths
    line_no,    \* lines of the current manifest read so far
    kept,       \* digest -> HashEntry (the dict of deduplicate_paths)
    stats,      \* DedupStats
    stdout,     \* the lines printed to stdout
    stderr,     \* the messages printed by eprint
    exit_code,  \* the status main returned, -1 while it runs
    faults,     \* I/O failures the environment may still inject
    decisions,  \* per examined record: its keeper, the return point taken
    disk0,      \* the tree as it was when the run started
    earlier,    \* stdout of the dry run that preceded this run, if any
    tool        \* the state of the companion scripts that read a dry-run log

vars == <<args, hashes, disk, pc, base_index, line_no, kept, stats, stdout,
          stderr, exit_code, faults, decisions, disk0, earlier, tool>>

----------------------------------------------------------------------------
(* Program constants.                                                      *)

MIN_DELETE_BYTES == 1024
SMALL_COMPARE_THRESHOLD == 512 * 1024
HEAD_COMPARE_BYTES == 256 * 1024
MIDDLE_COMPARE_BYTES == 128 * 1024
TAIL_COMPARE_BYTES == 128 * 1024
FULL_COMPARE_CHUNK == 256 * 1024
ZERO_CHECK_CHUNK == 8 * 1024 * 1024

Max(a, b) == IF a >= b THEN a ELSE b
Min(a, b) == IF a <= b THEN a ELSE b

----------------------------------------------------------------------------
(* Text and paths.                                                         *)

Blank == " "
Slash == "/"
Backslash == "\\"
Hash == "#"

\* str.strip(): blanks removed at both ends.
RECURSIVE LStrip(_)
LStrip(s) == IF s # <<>> /\ Head(s) = Blank THEN LStrip(Tail(s)) ELSE s

RECURSIVE RStrip(_)
RStrip(s) ==
    IF s # <<>> /\ s[Len(s)] = Blank THEN RStrip(SubSeq(s, 1, Len(s) - 1)) ELSE s

Strip(s) == RStrip(LStrip(s))

\* The index of the first blank of s, 0 when it has none.
RECURSIVE FirstBlank(_, _)
FirstBlank(s, i) ==
    IF i > Len(s) THEN 0 ELSE IF s[i] = Blank THEN i ELSE FirstBlank(s, i + 1)

\* Seeded fault: a split that keeps the second token only and drops what
\* follows it.
SplitOnce_SecondTokenOnly(s) ==
    LET b == FirstBlank(s, 1)
        rest == LStrip(SubSeq(s, b, Len(s)))
        e == FirstBlank(rest, 1)
    IN  IF b = 0 THEN <<s>>
        ELSE <<SubSeq(s, 1, b - 1), IF e = 0 THEN rest ELSE SubSeq(rest, 1, e - 1)>>

\* str.split(maxsplit=1) of a stripped, non-empty line: the first token and,
\* when a blank follows it, the rest of the line with its leading blanks cut.
SplitOnce(s) ==
    LET b == FirstBlank(s, 1)
    IN  IF b = 0 THEN <<s>>
        ELSE <<SubSeq(s, 1, b - 1), LStrip(SubSeq(s, b, Len(s)))>>

\* pathlib.Path(text): text cut at each "/"; empty and "." segments dropped;
\* absolute when the text starts with "/".
RECURSIVE Segments(_, _, _)
Segments(s, cur, acc) ==
    LET close == IF cur = <<>> \/ cur = <<".">> THEN acc ELSE Append(acc, cur)
    IN  IF s = <<>> THEN close
        ELSE IF Head(s) = Slash THEN Segments(Tail(s), <<>>, close)
        ELSE Segments(Tail(s), Append(cur, Head(s)), acc)

MkPath(s) == [absolute |-> s # <<>> /\ Head(s) = Slash, parts |-> Segments(s, <<>>, <<>>)]

normalize_relative_path(rel_path) ==
    LET stripped == Strip(rel_path)
        cleaned == [i \in 1..Len(stripped) |->
                       IF stripped[i] = Backslash THEN Slash ELSE stripped[i]]
    IN  MkPath(cleaned)

\* base_path / rel: an absolute right operand replaces the left one.
PathJoin(base, rel) ==
    IF rel.absolute THEN rel
    ELSE [absolute |-> base.absolute, parts |-> base.parts \o rel.parts]

\* Path.resolve() on a tree without symbolic links: each ".." removes the
\* segment before it; at the root it is dropped.
RECURSIVE ResolveParts(_, _)
ResolveParts(parts, acc) ==
    IF parts = <<>> THEN acc
    ELSE IF Head(parts) = <<"..">>
         THEN ResolveParts(Tail(parts),
                           IF acc = <<>> THEN acc ELSE SubSeq(acc, 1, Len(acc) - 1))
         ELSE ResolveParts(Tail(parts), Append(acc, Head(parts)))

Resolve(p) == [absolute |-> TRUE, parts |-> ResolveParts(p.parts, <<>>)]

\* p lies under directory d (Path.is_relative_to).
IsUnder(p, d) ==
    /\ Len(p.parts) >= Len(d.parts)
    /\ SubSeq(p.parts, 1, Len(d.parts)) = d.parts

----------------------------------------------------------------------------
(* File content: [size, ones], ones the offsets of the non-zero bytes.     *)

NoFile == [size |-> -1, ones |-> {}]

\* Seeded fault: a read that returns one byte less than the file holds.
ReadAt_OneShort(c, off, length) ==
    LET last == Min(off + length, c.size - 1)
    IN  [count |-> IF last > off THEN last - off ELSE 0,
         ones |-> {p \in c.ones : off <= p /\ p < last}]

\* handle.seek(off); handle.read(length): the bytes of [off, off + length)
\* that the file holds, as their count and the non-zero offsets among them.
ReadAt(c, off, length) ==
    LET last == Min(off + length, c.size)
    IN  [count |-> Max(last - off, 0),
         ones |-> {p \in c.ones : off <= p /\ p < last}]

read_segment(c, offset, length) == ReadAt(c, Max(offset, 0), Max(length, 0))

RECURSIVE BinaryEqualFrom(_, _, _, _)
BinaryEqualFrom(ca, cb, off, chunk_size) ==
    LET chunk_a == ReadAt(ca, off, chunk_size)
        chunk_b == ReadAt(cb, off, chunk_size)
    IN  IF chunk_a # chunk_b THEN FALSE
        ELSE IF chunk_a.count = 0 THEN TRUE
        ELSE BinaryEqualFrom(ca, cb, off + chunk_size, chunk_size)

\* Seeded fault: a comparison that reports equality when the open or a read
\* failed.
files_binary_equal_FailOpen(ca, cb, chunk_size, io_ok) ==
    IF ~io_ok THEN TRUE ELSE BinaryEqualFrom(ca, cb, 0, chunk_size)

\* io_ok: the open and every read succeeded (no OSError).
files_binary_equal(ca, cb, chunk_size, io_ok) ==
    IF ~io_ok THEN FALSE ELSE BinaryEqualFrom(ca, cb, 0, chunk_size)

\* Seeded fault: a middle segment that starts at the middle of the file.
SampleSegments_MiddleFromHalf(size) ==
    << <<0, Min(HEAD_COMPARE_BYTES, size)>>,
       <<Max(size \div 2, 0), Min(MIDDLE_COMPARE_BYTES, size)>>,
       <<Max(size - TAIL_COMPARE_BYTES, 0), Min(TAIL_COMPARE_BYTES, size)>> >>

SampleSegments(size) ==
    << <<0, Min(HEAD_COMPARE_BYTES, size)>>,
       <<Max((size \div 2) - (MIDDLE_COMPARE_BYTES \div 2), 0),
         Min(MIDDLE_COMPARE_BYTES, size)>>,
       <<Max(size - TAIL_COMPARE_BYTES, 0), Min(TAIL_COMPARE_BYTES, size)>> >>

\* Seeded fault: a sampled comparison that leaves the middle segment out.
files_sampled_equal_NoMiddle(ca, cb, size, io_ok) ==
    IF size <= 0 THEN FALSE
    ELSE IF ~io_ok THEN FALSE
    ELSE \A i \in {1, 3} :
            LET seg == SampleSegments(size)[i]
            IN  read_segment(ca, seg[1], seg[2]) = read_segment(cb, seg[1], seg[2])

files_sampled_equal(ca, cb, size, io_ok) ==
    IF size <= 0 THEN FALSE
    ELSE IF ~io_ok THEN FALSE
    ELSE \A i \in 1..3 :
            LET seg == SampleSegments(size)[i]
            IN  read_segment(ca, seg[1], seg[2]) = read_segment(cb, seg[1], seg[2])

\* Seeded fault: a verifier that samples a file of exactly the threshold.
files_equivalent_ThresholdExclusive(ca, cb, size, naive, io_ok) ==
    IF naive THEN TRUE
    ELSE IF size < SMALL_COMPARE_THRESHOLD
         THEN files_binary_equal(ca, cb, Max(size, 1), io_ok)
         ELSE files_sampled_equal(ca, cb, size, io_ok)

files_equivalent(ca, cb, size, naive, io_ok) ==
    IF naive THEN TRUE
    ELSE IF size <= SMALL_COMPARE_THRESHOLD
         THEN files_binary_equal(ca, cb, Max(size, 1), io_ok)
         ELSE files_sampled_equal(ca, cb, size, io_ok)

RECURSIVE ZeroFrom(_, _)
ZeroFrom(c, off) ==
    LET chunk == ReadAt(c, off, ZERO_CHECK_CHUNK)
    IN  IF chunk.count = 0 THEN TRUE
        ELSE IF chunk.ones # {} THEN FALSE
        ELSE ZeroFrom(c, off + ZERO_CHECK_CHUNK)

file_is_pure_zero(c, size, io_ok) ==
    IF size <= 0 THEN TRUE
    ELSE IF ~io_ok THEN FALSE
    ELSE LET head_size == Min(size, HEAD_COMPARE_BYTES)
             head == ReadAt(c, 0, head_size)
         IN  IF head.ones # {} THEN FALSE
             ELSE IF size <= head_size THEN TRUE
             ELSE ZeroFrom(c, head.count)

\* stat_a_ok, stat_b_ok: whether each stat() succeeded.
files_same_size(ca, cb, stat_a_ok, stat_b_ok) ==
    IF ~stat_a_ok THEN <<FALSE, -1, -1>>
    ELSE IF ~stat_b_ok THEN <<FALSE, ca.size, -1>>
    ELSE <<ca.size = cb.size, ca.size, cb.size>>

----------------------------------------------------------------------------
(* iter_hash_entries: one line of hashes.txt.                              *)

\* Seeded fault: roots numbered downwards from the first.
HashEntry_CountsDown(digest, path, bi, ln) ==
    [digest |-> digest, path |-> path, base_index |-> 0 - bi, line_no |-> ln]

HashEntry(digest, path, bi, ln) ==
    [digest |-> digest, path |-> path, base_index |-> bi, line_no |-> ln]

NoEntry == HashEntry(<<>>, [absolute |-> FALSE, parts |-> <<>>], -1, 0)

\* What the generator does with one line: "skip" it silently, "warn" and
\* skip it, or "yield" a HashEntry.
ParseLine(line, base_path, bi, ln) ==
    LET stripped == Strip(line)
        parts == SplitOnce(stripped)
        none(kind, msg) == [kind |-> kind, msg |-> msg, entry |-> NoEntry]
    IN  IF stripped = <<>> \/ Head(stripped) = Hash THEN none("skip", "")
        ELSE IF Len(parts) # 2 THEN none("warn", "expected '<hash> <relative path>'")
        ELSE IF parts[2] = <<>> THEN none("warn", "relative path missing")
        ELSE LET normalized_rel == normalize_relative_path(parts[2])
             IN  IF normalized_rel.absolute
                 THEN none("warn", "relative path is absolute")
                 ELSE [kind |-> "yield", msg |-> "",
                       entry |-> HashEntry(parts[1],
                                           Resolve(PathJoin(base_path, normalized_rel)),
                                           bi, ln)]

----------------------------------------------------------------------------
(* deduplicate_paths: try_delete and the loop body.  A run state s holds   *)
(* kept, stats, stdout, stderr and disk; a is the argument record; io is   *)
(* the set of I/O operations that fail when this call attempts them.       *)

Exists(d, path) == path \in DOMAIN d /\ d[path] # NoFile

Say(s, cond, msg) == IF cond THEN [s EXCEPT !.stderr = Append(@, msg)] ELSE s

\* Seeded fault: a missing file that is logged but not counted.
note_missing_NoCount(entry, s, a) ==
    Say(s, a.verbose, <<"[warn] File listed but missing", entry.path>>)

note_missing(entry, s, a) ==
    Say([s EXCEPT !.stats.missing_files = @ + 1], a.verbose,
        <<"[warn] File listed but missing", entry.path>>)

\* Seeded fault: a last step that unlinks in a dry run as well.
DeleteStep_DryRunUnlinks(entry, keeper, s, a, io) ==
    IF a.print_delete
    THEN [s EXCEPT !.stdout = Append(@, <<"", entry.path>>),
                   !.stats.deleted = @ + 1,
                   !.outcome = "Printed"]
    ELSE IF a.dry_run
    THEN [s EXCEPT !.disk[entry.path] = NoFile,
                   !.stdout = Append(@, <<"[DRY RUN]", entry.path, keeper.path>>),
                   !.outcome = "WouldDelete"]
    ELSE IF "unlink" \in io
    THEN [Say(s, TRUE, <<"[error] Failed to delete", entry.path>>)
             EXCEPT !.outcome = "FailedUnlink", !.hit = @ \cup {"unlink"}]
    ELSE [s EXCEPT !.disk[entry.path] = NoFile,
                   !.stats.deleted = @ + 1,
                   !.stdout = Append(@, <<"->", entry.path, keeper.path>>),
                   !.outcome = "Deleted"]

\* Seeded fault: a last step that prints "<keeper> -> <deleted file>".
DeleteStep_LineReversed(entry, keeper, s, a, io) ==
    IF a.print_delete
    THEN [s EXCEPT !.stdout = Append(@, <<"", entry.path>>),
                   !.stats.deleted = @ + 1,
                   !.outcome = "Printed"]
    ELSE IF a.dry_run
    THEN [s EXCEPT !.stdout = Append(@, <<"[DRY RUN]", entry.path, keeper.path>>),
                   !.outcome = "WouldDelete"]
    ELSE IF "unlink" \in io
    THEN [Say(s, TRUE, <<"[error] Failed to delete", entry.path>>)
             EXCEPT !.outcome = "FailedUnlink", !.hit = @ \cup {"unlink"}]
    ELSE [s EXCEPT !.disk[entry.path] = NoFile,
                   !.stats.deleted = @ + 1,
                   !.stdout = Append(@, <<"->", keeper.path, entry.path>>),
                   !.outcome = "Deleted"]

\* Seeded fault: a last step that counts a failed unlink as a deletion.
DeleteStep_CountsFailedUnlink(entry, keeper, s, a, io) ==
    IF a.print_delete
    THEN [s EXCEPT !.stdout = Append(@, <<"", entry.path>>),
                   !.stats.deleted = @ + 1,
                   !.outcome = "Printed"]
    ELSE IF a.dry_run
    THEN [s EXCEPT !.stdout = Append(@, <<"[DRY RUN]", entry.path, keeper.path>>),
                   !.outcome = "WouldDelete"]
    ELSE IF "unlink" \in io
    THEN [Say(s, TRUE, <<"[error] Failed to delete", entry.path>>)
             EXCEPT !.stats.deleted = @ + 1,
                    !.outcome = "FailedUnlink", !.hit = @ \cup {"unlink"}]
    ELSE [s EXCEPT !.disk[entry.path] = NoFile,
                   !.stats.deleted = @ + 1,
                   !.stdout = Append(@, <<"->", entry.path, keeper.path>>),
                   !.outcome = "Deleted"]

\* Lines 331-345: both files passed every gate.
DeleteStep(entry, keeper, s, a, io) ==
    IF a.print_delete
    THEN [s EXCEPT !.stdout = Append(@, <<"", entry.path>>),
                   !.stats.deleted = @ + 1,
                   !.outcome = "Printed"]
    ELSE IF a.dry_run
    THEN [s EXCEPT !.stdout = Append(@, <<"[DRY RUN]", entry.path, keeper.path>>),
                   !.outcome = "WouldDelete"]
    ELSE IF "unlink" \in io
    THEN [Say(s, TRUE, <<"[error] Failed to delete", entry.path>>)
             EXCEPT !.outcome = "FailedUnlink", !.hit = @ \cup {"unlink"}]
    ELSE [s EXCEPT !.disk[entry.path] = NoFile,
                   !.stats.deleted = @ + 1,
                   !.stdout = Append(@, <<"->", entry.path, keeper.path>>),
                   !.outcome = "Deleted"]

\* Seeded fault: size and content gates that naive mode switches off both.
VerifyStep_NaiveSkipsSize(entry, keeper, s, a, io) ==
    LET ca == s.disk[entry.path]
        cb == s.disk[keeper.path]
        same == IF a.naive THEN <<TRUE, ca.size, cb.size>>
                ELSE files_same_size(ca, cb, "stat_a" \notin io, "stat_b" \notin io)
        s1 == [s EXCEPT !.hit = @ \cup (IF a.naive THEN {}
                                        ELSE IF "stat_a" \in io THEN {"stat_a"}
                                        ELSE IF "stat_b" \in io THEN {"stat_b"}
                                        ELSE {})]
        reads == ~a.naive /\ same[1]
        s2 == [s1 EXCEPT !.hit = @ \cup (IF reads /\ "compare" \in io
                                         THEN {"compare"} ELSE {})]
    IN  IF ~same[1]
        THEN [Say(s1, a.verbose, <<"[info] Skip delete; size differs", entry.path>>)
                 EXCEPT !.outcome = "SkippedSizeMismatch"]
        ELSE IF ~files_equivalent(ca, cb, same[2], a.naive, "compare" \notin io)
        THEN [Say(Say(s2, reads /\ "compare" \in io,
                      <<"[warn] compare failed", entry.path>>),
                  a.verbose, <<"[info] Skip delete; content differs", entry.path>>)
                 EXCEPT !.outcome = "SkippedContentMismatch"]
        ELSE DeleteStep(entry, keeper, s2, a, io)

\* Seeded fault: a content gate that is decided before the size gate.
VerifyStep_ContentBeforeSize(entry, keeper, s, a, io) ==
    LET ca == s.disk[entry.path]
        cb == s.disk[keeper.path]
        same == files_same_size(ca, cb, "stat_a" \notin io, "stat_b" \notin io)
        s1 == [s EXCEPT !.hit = @ \cup (io \cap {"stat_a", "stat_b", "compare"})]
    IN  IF ~files_equivalent(ca, cb, ca.size, a.naive, "compare" \notin io)
        THEN [Say(s1, a.verbose, <<"[info] Skip delete; content differs", entry.path>>)
                 EXCEPT !.outcome = "SkippedContentMismatch"]
        ELSE IF ~same[1]
        THEN [Say(s1, a.verbose, <<"[info] Skip delete; size differs", entry.path>>)
                 EXCEPT !.outcome = "SkippedSizeMismatch"]
        ELSE DeleteStep(entry, keeper, s1, a, io)

\* Lines 316-329: the size and content gates.
VerifyStep(entry, keeper, s, a, io) ==
    LET ca == s.disk[entry.path]
        cb == s.disk[keeper.path]
        same == files_same_size(ca, cb, "stat_a" \notin io, "stat_b" \notin io)
        s1 == [s EXCEPT !.hit = @ \cup (IF "stat_a" \in io THEN {"stat_a"}
                                        ELSE IF "stat_b" \in io THEN {"stat_b"}
                                        ELSE {})]
        reads == ~a.naive /\ same[1]
        s2 == [s1 EXCEPT !.hit = @ \cup (IF reads /\ "compare" \in io
                                         THEN {"compare"} ELSE {})]
    IN  IF ~same[1]
        THEN [Say(s1, a.verbose, <<"[info] Skip delete; size differs", entry.path>>)
                 EXCEPT !.outcome = "SkippedSizeMismatch"]
        ELSE IF ~files_equivalent(ca, cb, same[2], a.naive, "compare" \notin io)
        THEN [Say(Say(s2, reads /\ "compare" \in io,
                      <<"[warn] compare failed", entry.path>>),
                  a.verbose, <<"[info] Skip delete; content differs", entry.path>>)
                 EXCEPT !.outcome = "SkippedContentMismatch"]
        ELSE DeleteStep(entry, keeper, s2, a, io)

\* Seeded fault: a size floor that also skips a file of exactly min_bytes.
GateStep_FloorInclusive(entry, keeper, s, a, io) ==
    LET size_entry == s.disk[entry.path].size
        zero_read == a.ignore_pure_zero /\ size_entry > 0
        s1 == [s EXCEPT !.hit = @ \cup (IF zero_read /\ "zero_read" \in io
                                        THEN {"zero_read"} ELSE {})]
        s2 == Say(s1, zero_read /\ "zero_read" \in io,
                  <<"[warn] Failed to read for zero check", entry.path>>)
    IN  IF "stat_entry" \in io
        THEN [Say([s EXCEPT !.stats.missing_files = @ + 1], TRUE,
                  <<"[warn] Could not stat", entry.path>>)
                 EXCEPT !.outcome = "FailedStat", !.hit = @ \cup {"stat_entry"}]
        ELSE IF size_entry <= a.min_bytes
        THEN [Say([s EXCEPT !.stats.skipped_small = @ + 1], a.verbose,
                  <<"[info] Skipping under min bytes", entry.path>>)
                 EXCEPT !.outcome = "SkippedTooSmall"]
        ELSE IF a.ignore_pure_zero
                /\ file_is_pure_zero(s.disk[entry.path], size_entry, "zero_read" \notin io)
        THEN [Say([s2 EXCEPT !.stats.skipped_zero = @ + 1], a.verbose,
                  <<"[info] Skipping all-zero file", entry.path>>)
                 EXCEPT !.outcome = "SkippedZeroContent"]
        ELSE VerifyStep(entry, keeper, s2, a, io)

\* Lines 296-314: stat of the candidate, the size floor, the all-zero gate.
GateStep(entry, keeper, s, a, io) ==
    LET size_entry == s.disk[entry.path].size
        zero_read == a.ignore_pure_zero /\ size_entry > 0
        s1 == [s EXCEPT !.hit = @ \cup (IF zero_read /\ "zero_read" \in io
                                        THEN {"zero_read"} ELSE {})]
        s2 == Say(s1, zero_read /\ "zero_read" \in io,
                  <<"[warn] Failed to read for zero check", entry.path>>)
    IN  IF "stat_entry" \in io
        THEN [Say([s EXCEPT !.stats.missing_files = @ + 1], TRUE,
                  <<"[warn] Could not stat", entry.path>>)
                 EXCEPT !.outcome = "FailedStat", !.hit = @ \cup {"stat_entry"}]
        ELSE IF size_entry < a.min_bytes
        THEN [Say([s EXCEPT !.stats.skipped_small = @ + 1], a.verbose,
                  <<"[info] Skipping under min bytes", entry.path>>)
                 EXCEPT !.outcome = "SkippedTooSmall"]
        ELSE IF a.ignore_pure_zero
                /\ file_is_pure_zero(s.disk[entry.path], size_entry, "zero_read" \notin io)
        THEN [Say([s2 EXCEPT !.stats.skipped_zero = @ + 1], a.verbose,
                  <<"[info] Skipping all-zero file", entry.path>>)
                 EXCEPT !.outcome = "SkippedZeroContent"]
        ELSE VerifyStep(entry, keeper, s2, a, io)

\* Seeded fault: a planner without the test for entry.path = keeper.path.
try_delete_NoSamePathTest(entry, keeper, s, a, io) ==
    LET s1 == [s EXCEPT !.stats.duplicates = @ + 1]
    IN  IF ~Exists(s1.disk, entry.path)
        THEN [note_missing(entry, s1, a) EXCEPT !.outcome = "SkippedMissing"]
        ELSE IF ~Exists(s1.disk, keeper.path)
        THEN [Say([s1 EXCEPT !.stats.missing_files = @ + 1], a.verbose,
                  <<"[warn] Kept file missing; skipping delete", entry.path>>)
                 EXCEPT !.outcome = "FailedKeeperMissing"]
        ELSE GateStep(entry, keeper, s1, a, io)

\* Seeded fault: a planner that counts the pair as duplicates before it
\* tests for entry.path = keeper.path.
try_delete_CountsSamePath(entry, keeper, s, a, io) ==
    LET s1 == [s EXCEPT !.stats.duplicates = @ + 1]
    IN  IF entry.path = keeper.path
        THEN [Say(s1, a.verbose, <<"[info] Duplicate hash entry for same file skipped", entry.path>>)
                 EXCEPT !.outcome = "Kept"]
        ELSE IF ~Exists(s1.disk, entry.path)
        THEN [note_missing(entry, s1, a) EXCEPT !.outcome = "SkippedMissing"]
        ELSE IF ~Exists(s1.disk, keeper.path)
        THEN [Say([s1 EXCEPT !.stats.missing_files = @ + 1], a.verbose,
                  <<"[warn] Kept file missing; skipping delete", entry.path>>)
                 EXCEPT !.outcome = "FailedKeeperMissing"]
        ELSE GateStep(entry, keeper, s1, a, io)

try_delete(entry, keeper, s, a, io) ==
    IF entry.path = keeper.path
    THEN [Say(s, a.verbose, <<"[info] Duplicate hash entry for same file skipped", entry.path>>)
             EXCEPT !.outcome = "Kept"]
    ELSE LET s1 == [s EXCEPT !.stats.duplicates = @ + 1]
         IN  IF ~Exists(s1.disk, entry.path)
             THEN [note_missing(entry, s1, a) EXCEPT !.outcome = "SkippedMissing"]
             ELSE IF ~Exists(s1.disk, keeper.path)
             THEN [Say([s1 EXCEPT !.stats.missing_files = @ + 1], a.verbose,
                       <<"[warn] Kept file missing; skipping delete", entry.path>>)
                      EXCEPT !.outcome = "FailedKeeperMissing"]
             ELSE GateStep(entry, keeper, s1, a, io)

\* Seeded fault: a loop body without the two base_index tests.
Branch_NoTierTests(entry, k, d) ==
    IF entry.digest \notin DOMAIN k THEN "unseen"
    ELSE LET kept_entry == k[entry.digest]
         IN  IF ~Exists(d, kept_entry.path) THEN "keeper_missing"
             ELSE IF ~Exists(d, entry.path) THEN "entry_missing"
             ELSE "candidate"

\* Seeded fault: a loop body that takes two records for one tier only when
\* their paths are equal.
Branch_SameTierByPath(entry, k, d) ==
    IF entry.digest \notin DOMAIN k THEN "unseen"
    ELSE LET kept_entry == k[entry.digest]
         IN  IF ~Exists(d, kept_entry.path) THEN "keeper_missing"
             ELSE IF ~Exists(d, entry.path) THEN "entry_missing"
             ELSE IF entry.path = kept_entry.path THEN "same_tier"
             ELSE IF entry.base_index < kept_entry.base_index THEN "lower_wins"
             ELSE "candidate"

\* Seeded fault: a loop body that hands an equal base_index to the planner
\* and skips a larger one.
Branch_TierTestsSwapped(entry, k, d) ==
    IF entry.digest \notin DOMAIN k THEN "unseen"
    ELSE LET kept_entry == k[entry.digest]
         IN  IF ~Exists(d, kept_entry.path) THEN "keeper_missing"
             ELSE IF ~Exists(d, entry.path) THEN "entry_missing"
             ELSE IF entry.base_index > kept_entry.base_index THEN "same_tier"
             ELSE IF entry.base_index < kept_entry.base_index THEN "lower_wins"
             ELSE "candidate"

\* Seeded fault: a loop body that compares the base_index before it looks
\* for the two files.
Branch_TiersBeforeFiles(entry, k, d) ==
    IF entry.digest \notin DOMAIN k THEN "unseen"
    ELSE LET kept_entry == k[entry.digest]
         IN  IF entry.base_index = kept_entry.base_index THEN "same_tier"
             ELSE IF entry.base_index < kept_entry.base_index THEN "lower_wins"
             ELSE IF ~Exists(d, kept_entry.path) THEN "keeper_missing"
             ELSE IF ~Exists(d, entry.path) THEN "entry_missing"
             ELSE "candidate"

\* Lines 351-383: which branch of the loop body a record takes.
Branch(entry, k, d) ==
    IF entry.digest \notin DOMAIN k THEN "unseen"
    ELSE LET kept_entry == k[entry.digest]
         IN  IF ~Exists(d, kept_entry.path) THEN "keeper_missing"
             ELSE IF ~Exists(d, entry.path) THEN "entry_missing"
             ELSE IF entry.base_index = kept_entry.base_index THEN "same_tier"
             ELSE IF entry.base_index < kept_entry.base_index THEN "lower_wins"
             ELSE "candidate"

SetKept(k, entry) ==
    [x \in DOMAIN k \cup {entry.digest} |-> IF x = entry.digest THEN entry ELSE k[x]]

\* The body of the inner for loop, for one yielded entry.  outcome names the
\* return point taken; hit the injected failures that occurred.
Examine(entry, s0, a, io) ==
    LET s == [s0 EXCEPT !.stats.examined = @ + 1, !.outcome = "", !.hit = {}]
        branch == Branch(entry, s.kept, s.disk)
        keep == [s EXCEPT !.kept = SetKept(@, entry)]
        missing == note_missing(entry, s, a)
    IN  CASE branch = "unseen" ->
               IF ~Exists(s.disk, entry.path)
               THEN [missing EXCEPT !.outcome = "MissingUnseen"]
               ELSE [keep EXCEPT !.outcome = "FirstKeeper"]
          [] branch = "keeper_missing" ->
               IF ~Exists(s.disk, entry.path)
               THEN [missing EXCEPT !.outcome = "BothMissing"]
               ELSE [Say(keep, a.verbose,
                         <<"[warn] Kept file missing; keeping instead", entry.path>>)
                        EXCEPT !.outcome = "Repromoted"]
          [] branch = "entry_missing" ->
               [missing EXCEPT !.outcome = "CandidateMissing"]
          [] branch = "same_tier" ->
               [Say(s, entry.path = s.kept[entry.digest].path /\ a.verbose,
                    <<"[info] Duplicate hash entry for same file skipped", entry.path>>)
                   EXCEPT !.outcome = "SkippedSamePriority"]
          [] branch = "lower_wins" -> [keep EXCEPT !.outcome = "LowerWins"]
          [] OTHER -> try_delete(entry, s.kept[entry.digest], s, a, io)

----------------------------------------------------------------------------
(* The process: main, the two loops of deduplicate_paths, the return.      *)

ZeroStats(dry_run) ==
    [examined |-> 0, duplicates |-> 0, deleted |-> 0, skipped_small |-> 0,
     skipped_zero |-> 0, missing_files |-> 0, dry_run |-> dry_run]

NoKept == [x \in {} |-> NoEntry]

\* validate_paths: every path is a directory that holds a hashes.txt.
ValidPaths(paths, h) == \A i \in 1..Len(paths) : paths[i] \in DOMAIN h

base_paths == [i \in 1..Len(args.paths) |-> Resolve(args.paths[i])]

\* The loops' position after the manifests that are read to their end are
\* left: the next (root index, line) to read, or Len(paths) when none is.
\* Seeded fault: loops that end with the first manifest that is read to its
\* end.
Advance_FirstManifestOnly(paths, h, bi, ln) ==
    IF bi >= Len(paths) THEN <<bi, 0>>
    ELSE IF ln >= Len(h[paths[bi + 1]]) THEN <<Len(paths), 0>>
    ELSE <<bi, ln>>

RECURSIVE Advance(_, _, _, _)
Advance(paths, h, bi, ln) ==
    IF bi >= Len(paths) THEN <<bi, 0>>
    ELSE IF ln >= Len(h[paths[bi + 1]]) THEN Advance(paths, h, bi + 1, 0)
    ELSE <<bi, ln>>

\* The sets of failures a handler may meet, given what the environment may
\* still inject.
IOOps == {"stat_entry", "zero_read", "stat_a", "stat_b", "compare", "unlink"}
FaultSets(n) == {io \in SUBSET IOOps : Cardinality(io) <= n}

\* Seeded fault: a main without the test for a negative --min-bytes.
Main_NoMinBytesTest ==
    /\ pc = "main"
    /\ IF ~ValidPaths(base_paths, hashes)
       THEN /\ pc' = "exit"
            /\ exit_code' = 1
            /\ stderr' = Append(stderr, <<"Input path is not a directory or lacks hashes.txt">>)
            /\ UNCHANGED <<base_index, line_no, stats>>
       ELSE /\ pc' = "roots"
            /\ base_index' = Advance(base_paths, hashes, 0, 0)[1]
            /\ line_no' = Advance(base_paths, hashes, 0, 0)[2]
            /\ stats' = ZeroStats(args.dry_run)
            /\ UNCHANGED <<exit_code, stderr>>
    /\ UNCHANGED <<args, hashes, disk, kept, stdout, faults, decisions, disk0, earlier,
                   tool>>

Main ==
    /\ pc = "main"
    /\ IF args.min_bytes < 0
       THEN /\ pc' = "exit"
            /\ exit_code' = 1
            /\ stderr' = Append(stderr, <<"Minimum delete bytes must be zero or greater.">>)
            /\ UNCHANGED <<base_index, line_no, stats>>
       ELSE IF ~ValidPaths(base_paths, hashes)
       THEN /\ pc' = "exit"
            /\ exit_code' = 1
            /\ stderr' = Append(stderr, <<"Input path is not a directory or lacks hashes.txt">>)
            /\ UNCHANGED <<base_index, line_no, stats>>
       ELSE /\ pc' = "roots"
            /\ base_index' = Advance(base_paths, hashes, 0, 0)[1]
            /\ line_no' = Advance(base_paths, hashes, 0, 0)[2]
            /\ stats' = ZeroStats(args.dry_run)
            /\ UNCHANGED <<exit_code, stderr>>
    /\ UNCHANGED <<args, hashes, disk, kept, stdout, faults, decisions, disk0, earlier,
                   tool>>

\* One line of the current manifest: parsed and, when it yields an entry,
\* taken through the loop body.
ReadLine ==
    /\ pc = "roots"
    /\ base_index < Len(base_paths)
    /\ LET base_path == base_paths[base_index + 1]
           parsed == ParseLine(hashes[base_path][line_no + 1], base_path,
                               base_index, line_no + 1)
           s0 == [kept |-> kept, stats |-> stats, stdout |-> stdout,
                  stderr |-> stderr, disk |-> disk, outcome |-> "", hit |-> {}]
           next == Advance(base_paths, hashes, base_index, line_no + 1)
       IN  /\ base_index' = next[1]
           /\ line_no' = next[2]
           /\ IF parsed.kind = "yield"
              THEN \E io \in FaultSets(faults) :
                      LET s == Examine(parsed.entry, s0, args, io)
                      IN  /\ s.hit = io
                          /\ kept' = s.kept
                          /\ stats' = s.stats
                          /\ stdout' = s.stdout
                          /\ stderr' = s.stderr
                          /\ disk' = s.disk
                          /\ faults' = faults - Cardinality(io)
                          /\ decisions' = Append(decisions,
                                [entry |-> parsed.entry,
                                 keeper |-> IF parsed.entry.digest \in DOMAIN kept
                                            THEN kept[parsed.entry.digest] ELSE NoEntry,
                                 outcome |-> s.outcome, hit |-> s.hit])
              ELSE /\ stderr' = IF parsed.kind = "warn"
                                THEN Append(stderr, <<"[warn]", parsed.msg>>) ELSE stderr
                   /\ UNCHANGED <<kept, stats, stdout, disk, faults, decisions>>
    /\ UNCHANGED <<args, hashes, pc, exit_code, disk0, earlier, tool>>

\* deduplicate_paths returns; main prints the summary and returns 0.
Finish ==
    /\ pc = "roots"
    /\ base_index >= Len(base_paths)
    /\ pc' = "exit"
    /\ exit_code' = 0
    /\ stderr' = IF args.verbose THEN Append(stderr, <<"[summary]", stats>>) ELSE stderr
    /\ UNCHANGED <<args, hashes, disk, base_index, line_no, kept, stats, stdout,
                   faults, decisions, disk0, earlier, tool>>

\* A real run on the inputs a finished dry run was given: the same command
\* line without --dry-run.
Rerun ==
    /\ pc = "exit"
    /\ exit_code = 0
    /\ args.dry_run
    /\ ~earlier.ran
    /\ args' = [args EXCEPT !.dry_run = FALSE]
    /\ earlier' = [ran |-> TRUE, stdout |-> stdout]
    /\ pc' = "main"
    /\ exit_code' = -1
    /\ base_index' = 0
    /\ line_no' = 0
    /\ kept' = NoKept
    /\ stats' = ZeroStats(FALSE)
    /\ stdout' = <<>>
    /\ stderr' = <<>>
    /\ decisions' = <<>>
    /\ disk0' = disk
    /\ UNCHANGED <<hashes, disk, faults, tool>>

----------------------------------------------------------------------------
(* The dry-run log and the two scripts that read it back:                  *)
(* check-dryrun-deletion.py and delete-from-dryrun.py.                     *)

Tag == "[DRY RUN]"
WouldMove == "Would move"
Arrow == "->"

\* str(path): the segments joined by "/", after a "/" when absolute.
RECURSIVE JoinParts(_)
JoinParts(parts) ==
    IF parts = <<>> THEN <<>>
    ELSE IF Len(parts) = 1 THEN parts[1]
    ELSE parts[1] \o <<Slash>> \o JoinParts(Tail(parts))

PathStr(p) ==
    IF p.parts = <<>> THEN (IF p.absolute THEN <<Slash>> ELSE <<".">>)
    ELSE (IF p.absolute THEN <<Slash>> ELSE <<>>) \o JoinParts(p.parts)

\* The line a dry run prints for a duplicate it would delete.
DryRunLine(from, to) == <<Tag, Blank>> \o PathStr(from) \o <<Blank, Arrow, Blank>> \o PathStr(to)

\* What parse_line returns: (None, None), (None, error) or ((from, to), None).
Nothing == [pair |-> <<>>, error |-> ""]
Ignored(error) == [pair |-> <<>>, error |-> error]
Parsed(from_path, to_path) ==
    [pair |-> <<MkPath(from_path), MkPath(to_path)>>, error |-> ""]

\* The text after the tag, and after "Would move" when it starts with it.
Payload(stripped) ==
    LET payload == Strip(Tail(stripped))
    IN  IF payload # <<>> /\ Head(payload) = WouldMove THEN Strip(Tail(payload))
        ELSE payload

ArrowsIn(payload) == {i \in 1..Len(payload) : payload[i] = Arrow}

\* The two sides of the payload cut at the arrow at position k.
CutAt(payload, k) ==
    LET from_path == Strip(SubSeq(payload, 1, k - 1))
        to_path == Strip(SubSeq(payload, k + 1, Len(payload)))
    IN  IF from_path = <<>> \/ to_path = <<>>
        THEN Ignored("missing source or target path")
        ELSE Parsed(from_path, to_path)

\* check-dryrun-deletion.py: payload.partition("->") cuts at the first arrow.
check_parse_line(line) ==
    LET stripped == Strip(line)
    IN  IF stripped = <<>> THEN Nothing
        ELSE IF Head(stripped) # Tag THEN Nothing
        ELSE LET payload == Payload(stripped)
                 arrows == ArrowsIn(payload)
             IN  IF arrows = {} THEN Ignored("missing '->' separator")
                 ELSE CutAt(payload, CHOOSE k \in arrows : \A j \in arrows : k <= j)

\* delete-from-dryrun.py: payload.rsplit("->", 1) cuts at the last arrow.
delete_parse_line(line) ==
    LET stripped == Strip(line)
    IN  IF stripped = <<>> THEN Nothing
        ELSE IF Head(stripped) # Tag THEN Nothing
        ELSE LET payload == Payload(stripped)
                 arrows == ArrowsIn(payload)
             IN  IF arrows = {} THEN Ignored("missing '->' separator")
                 ELSE CutAt(payload, CHOOSE k \in arrows : \A j \in arrows : k >= j)

SAMPLE_BLOCK_BYTES == 32 * 1024
SAMPLE_SPOTS == 10

\* int(round(n / d)) for n >= 0 and d > 0: the nearest integer, the even one
\* of the two when n / d lies halfway (exact while n / d is far below 2^52).
RoundHalfEven(n, d) ==
    LET q == n \div d
        r == n % d
    IN  IF 2 * r < d THEN q
        ELSE IF 2 * r > d THEN q + 1
        ELSE IF q % 2 = 0 THEN q ELSE q + 1

\* The inner add(): the offset bounded to [0, max_offset], appended unless
\* it is in the list already.
AddOffset(offsets, offset, max_offset) ==
    LET bounded == Min(Max(offset, 0), max_offset)
    IN  IF \E i \in 1..Len(offsets) : offsets[i] = bounded THEN offsets
        ELSE Append(offsets, bounded)

\* for i in range(i, spots + 1): add(int(round(i * max_offset / (spots + 1))))
RECURSIVE AddSpots(_, _, _, _)
AddSpots(offsets, i, spots, max_offset) ==
    IF i > spots THEN offsets
    ELSE AddSpots(AddOffset(offsets, RoundHalfEven(i * max_offset, spots + 1), max_offset),
                  i + 1, spots, max_offset)

\* Seeded fault: a list of offsets without the closing add(max_offset).
sampled_offsets_NoLast(size, block_size, spots) ==
    LET max_offset == Max(size - block_size, 0)
        first == AddOffset(<<>>, 0, max_offset)
        middle == Max((size \div 2) - (block_size \div 2), 0)
        mid == AddOffset(first, middle, max_offset)
    IN  IF spots > 0 /\ max_offset > 0 THEN AddSpots(mid, 1, spots, max_offset) ELSE mid

sampled_offsets(size, block_size, spots) ==
    LET max_offset == Max(size - block_size, 0)
        first == AddOffset(<<>>, 0, max_offset)
        middle == Max((size \div 2) - (block_size \div 2), 0)
        mid == AddOffset(first, middle, max_offset)
        spotted == IF spots > 0 /\ max_offset > 0
                   THEN AddSpots(mid, 1, spots, max_offset) ELSE mid
    IN  AddOffset(spotted, max_offset, max_offset)

\* No companion script runs.
NoTool == [name |-> "none"]

\* The two scripts read the lines of one log, each at its own pace; check
\* and delete hold what parse_line returned for the lines read so far.
CheckParse ==
    /\ tool.name = "log"
    /\ Len(tool.check) < Len(tool.log)
    /\ tool' = [tool EXCEPT !.check = Append(@, check_parse_line(tool.log[Len(@) + 1]))]
    /\ UNCHANGED <<args, hashes, disk, pc, base_index, line_no, kept, stats, stdout,
                   stderr, exit_code, faults, decisions, disk0, earlier>>

DeleteParse ==
    /\ tool.name = "log"
    /\ Len(tool.delete) < Len(tool.log)
    /\ tool' = [tool EXCEPT !.delete = Append(@, delete_parse_line(tool.log[Len(@) + 1]))]
    /\ UNCHANGED <<args, hashes, disk, pc, base_index, line_no, kept, stats, stdout,
                   stderr, exit_code, faults, decisions, disk0, earlier>>

\* The sampled comparison of check-dryrun-deletion.py asks for the offsets
\* of the blocks it will read.
SampleOffsets ==
    /\ tool.name = "offsets"
    /\ ~tool.done
    /\ tool' = [tool EXCEPT !.offsets = sampled_offsets(tool.size, tool.block_size, tool.spots),
                            !.done = TRUE]
    /\ UNCHANGED <<args, hashes, disk, pc, base_index, line_no, kept, stats, stdout,
                   stderr, exit_code, faults, decisions, disk0, earlier>>

----------------------------------------------------------------------------
(* The inputs: command lines, manifests and trees, drawn from three        *)
(* bounded families.                                                       *)

MaxRoots == 3    \* roots on the command line
MaxLines == 4    \* manifest lines of all roots together (many-record family)
WideRoots == 2   \* roots on the command line (every-gate family)
MaxFaults == 1   \* I/O failures injected in one run (every-gate family)

Dir(name) == [absolute |-> TRUE, parts |-> << <<name>> >>]
DirA == Dir("A")
DirB == Dir("B")
DirC == Dir("C")

RelX == <<"x">>
RelUpAX == <<"..", Backslash, "A", Backslash, "x">>

Line(digest, rel) == <<digest, Blank>> \o rel

FileOf(d) == Resolve(PathJoin(d, normalize_relative_path(RelX)))
AllPaths == {FileOf(DirA), FileOf(DirB), FileOf(DirC)}

Base == [size |-> 2000, ones |-> {0}]
TailDiff == [size |-> 2000, ones |-> {0, 1999}]
AllZero == [size |-> 2000, ones |-> {}]
Small == [size |-> MIN_DELETE_BYTES - 1, ones |-> {0}]
Large == [size |-> 1000000, ones |-> {0}]
LargeGap == [size |-> 1000000, ones |-> {0, 300000}]
LargeMid == [size |-> 1000000, ones |-> {0, 500000}]

PlainFiles == {NoFile, Base}
ChainFiles == {NoFile, Base, TailDiff}
AnyFiles == {NoFile, Base, TailDiff, AllZero, Small, Large, LargeGap, LargeMid}

\* The sequences of at most n elements of S, none of them twice.
SeqsNoRepeat(S, n) ==
    UNION {{q \in [1..k -> S] : \A i, j \in 1..k : q[i] = q[j] => i = j} :
           k \in 0..Min(n, Cardinality(S))}

\* The non-empty sequences of at most n elements of S.
SeqsUpTo(S, n) == UNION {[1..k -> S] : k \in 1..n}

Range(q) == {q[i] : i \in 1..Len(q)}

RECURSIVE SumLen(_, _)
SumLen(h, ds) ==
    IF ds = {} THEN 0
    ELSE LET d == CHOOSE x \in ds : TRUE
         IN  Len(h[d]) + SumLen(h, ds \ {d})

\* The file paths the manifests h name.
Referenced(h) ==
    UNION {{ParseLine(h[d][i], d, 0, i).entry.path : i \in 1..Len(h[d])} :
           d \in DOMAIN h} \cap AllPaths

DefaultArgs(paths) ==
    [paths |-> paths, verbose |-> FALSE, dry_run |-> FALSE,
     min_bytes |-> MIN_DELETE_BYTES, naive |-> FALSE,
     ignore_pure_zero |-> FALSE, print_delete |-> FALSE]

\* The state main starts in, given the command line, the manifests, the
\* content of the files the manifests name and the failures to come.
Start(a, h, files, n) ==
    /\ args = a
    /\ hashes = h
    /\ disk = [p \in AllPaths |-> IF p \in DOMAIN files THEN files[p] ELSE NoFile]
    /\ disk0 = disk
    /\ faults = n
    /\ pc = "main"
    /\ base_index = 0
    /\ line_no = 0
    /\ kept = NoKept
    /\ stats = ZeroStats(FALSE)
    /\ stdout = <<>>
    /\ stderr = <<>>
    /\ exit_code = -1
    /\ decisions = <<>>
    /\ earlier = [ran |-> FALSE, stdout |-> <<>>]
    /\ tool = NoTool

DeepLines == {Line(g, r) : g \in {"d", "e"}, r \in {RelX, RelUpAX}}

\* Many records over plain files: two directories, up to MaxRoots roots
\* (a directory may be listed twice), up to MaxLines lines in all, no line
\* twice in a manifest.  Digests are opaque keys: the first line read names
\* digest d, the other inputs being these with d and e exchanged.
InitDeep(dry_run) ==
    \E paths \in SeqsUpTo({DirA, DirB}, MaxRoots) :
    \E h \in [Range(paths) -> SeqsNoRepeat(DeepLines, MaxLines)] :
        /\ SumLen(h, DOMAIN h) <= MaxLines
        /\ LET first == Advance(paths, h, 0, 0)
           IN  first[1] < Len(paths) => Head(h[paths[first[1] + 1]][1]) = "d"
        /\ \E files \in [Referenced(h) -> PlainFiles] :
              Start([DefaultArgs(paths) EXCEPT !.dry_run = dry_run], h, files, 0)

MinBytesSet == {MIN_DELETE_BYTES, 2000}

\* One pair under every option: up to WideRoots roots, each manifest empty
\* or listing its file x under digest d, files of every kind, every
\* combination of the options that decide a deletion, and up to MaxFaults
\* failing I/O operations.
InitWide ==
    \E paths \in SeqsUpTo({DirA, DirB}, WideRoots) :
    \E h \in [Range(paths) -> {<<>>, <<Line("d", RelX)>>}] :
    \E files \in [Referenced(h) -> AnyFiles] :
    \E n, z, dr, pd \in BOOLEAN :
    \E mb \in MinBytesSet :
        Start([paths |-> paths, verbose |-> FALSE, dry_run |-> dr, min_bytes |-> mb,
               naive |-> n, ignore_pure_zero |-> z, print_delete |-> pd],
              h, files, MaxFaults)

\* One copy per root: up to MaxRoots roots among three directories, each
\* manifest listing its file x under the same digest; with and without
\* --verbose.
InitChain ==
    \E paths \in SeqsUpTo({DirA, DirB, DirC}, MaxRoots) :
    \E files \in [{FileOf(d) : d \in Range(paths)} -> ChainFiles] :
    \E v \in BOOLEAN :
        Start([DefaultArgs(paths) EXCEPT !.verbose = v],
              [d \in Range(paths) |-> <<Line("d", RelX)>>], files, 0)

MaxOddLines == 3   \* lines of the manifest with malformed lines

\* The kinds of line a manifest may hold: a record, a record with padding, a
\* comment, a blank line, a digest without a path, an absolute path, three
\* tokens.
LineKinds ==
    {Line("d", RelX),
     <<Blank, "d", Blank, Blank, "x", Blank>>,
     <<Hash, "d", Blank, "x">>,
     <<Blank>>,
     <<"d">>,
     <<"d", Blank, Slash, "x">>,
     <<"d", Blank, "x", Blank, "y">>}

\* Malformed manifests: root A lists its file, root B's manifest is any
\* sequence of up to MaxOddLines lines of these kinds.
InitLines ==
    \E lines \in SeqsUpTo(LineKinds, MaxOddLines) :
    \E files \in [{FileOf(DirA), FileOf(DirB)} -> PlainFiles] :
        Start(DefaultArgs(<<DirA, DirB>>),
              [d \in {DirA, DirB} |-> IF d = DirA THEN <<Line("d", RelX)>> ELSE lines],
              files, 0)

\* Files at the boundary between the two comparisons: of exactly
\* SMALL_COMPARE_THRESHOLD bytes and of one byte more, alike but for one
\* byte that lies in none of the sampled segments.
AtThreshold == [size |-> SMALL_COMPARE_THRESHOLD, ones |-> {0}]
AtThresholdGap == [size |-> SMALL_COMPARE_THRESHOLD, ones |-> {0, 350000}]
OverThreshold == [size |-> SMALL_COMPARE_THRESHOLD + 1, ones |-> {0}]
OverThresholdGap == [size |-> SMALL_COMPARE_THRESHOLD + 1, ones |-> {0, 350000}]

EdgeFiles == {AtThreshold, AtThresholdGap, OverThreshold, OverThresholdGap}

\* The boundary: roots A and B list their file x under one digest, the two
\* files are of these, with and without --naive.
InitEdge ==
    \E files \in [{FileOf(DirA), FileOf(DirB)} -> EdgeFiles] :
    \E n \in BOOLEAN :
        Start([DefaultArgs(<<DirA, DirB>>) EXCEPT !.naive = n],
              [d \in {DirA, DirB} |-> <<Line("d", RelX)>>], files, 0)

\* A keeper that is deleted under another digest: root A lists its file,
\* root B lists its file under up to two digests, root C lists one line,
\* which may name the file of root A.
InitLate ==
    \E lb \in SeqsNoRepeat({Line("d", RelX), Line("e", RelX)}, 2) :
    \E lc \in SeqsNoRepeat(DeepLines, 1) :
    \E files \in [AllPaths -> PlainFiles] :
        Start(DefaultArgs(<<DirA, DirB, DirC>>),
              [d \in {DirA, DirB, DirC} |->
                  IF d = DirA THEN <<Line("d", RelX)>> ELSE IF d = DirB THEN lb ELSE lc],
              files, 0)

\* Files for the full comparison: empty, of one byte, and files of one size
\* that differ in the first, a middle or the last byte only.
Empty == [size |-> 0, ones |-> {}]
OneByte == [size |-> 1, ones |-> {0}]
OneZero == [size |-> 1, ones |-> {}]
Plain == [size |-> 3000, ones |-> {}]
HeadDiff == [size |-> 3000, ones |-> {0}]
MidDiff == [size |-> 3000, ones |-> {1500}]
LastDiff == [size |-> 3000, ones |-> {2999}]
AtThresholdLast ==
    [size |-> SMALL_COMPARE_THRESHOLD, ones |-> {0, SMALL_COMPARE_THRESHOLD - 1}]

SmallFiles ==
    {Empty, OneByte, OneZero, Plain, HeadDiff, MidDiff, LastDiff, AtThreshold,
     AtThresholdLast}

\* The full comparison: roots A and B list their file x under one digest,
\* the two files are of these, and --min-bytes 0 lets every size through.
InitSmall ==
    \E files \in [{FileOf(DirA), FileOf(DirB)} -> SmallFiles] :
        Start([DefaultArgs(<<DirA, DirB>>) EXCEPT !.min_bytes = 0],
              [d \in {DirA, DirB} |-> <<Line("d", RelX)>>], files, 0)

\* Invalid command lines: a root that is no directory or holds no
\* hashes.txt (any of them, the last included), or a negative --min-bytes.
InitInvalid ==
    \E paths \in SeqsUpTo({DirA, DirB, DirC}, MaxRoots) :
    \E have \in SUBSET Range(paths) :
    \E mb \in {-1, MIN_DELETE_BYTES} :
        /\ have # Range(paths) \/ mb < 0
        /\ Start([DefaultArgs(paths) EXCEPT !.min_bytes = mb],
                 [d \in have |-> <<Line("d", RelX)>>],
                 [p \in {FileOf(d) : d \in Range(paths)} |-> Base], 0)

Init ==
    InitDeep(FALSE) \/ InitWide \/ InitChain \/ InitInvalid \/ InitLines \/ InitEdge
        \/ InitLate \/ InitSmall

Next == Main \/ ReadLine \/ Finish

Spec == Init /\ [][Next]_vars

\* Where the program is: the statement of main and the place in the two
\* for loops.
position == <<pc, base_index, line_no>>

\* The inner for loop takes the next line of the current manifest, or the
\* outer loop the next root: what ReadLine does to the position.
NextLine ==
    /\ pc = "roots"
    /\ base_index < Len(base_paths)
    /\ pc' = pc
    /\ base_index' = Advance(base_paths, hashes, base_index, line_no + 1)[1]
    /\ line_no' = Advance(base_paths, hashes, base_index, line_no + 1)[2]

\* The interpreter runs the program on: main starts, a loop that has a line
\* left reads it, and a finished loop returns.
SpecLive == Spec /\ WF_position(Main) /\ WF_position(NextLine) /\ WF_position(Finish)

\* A dry run, then the real run on the same inputs.
InitPair == InitDeep(TRUE)

NextPair == Main \/ ReadLine \/ Finish \/ Rerun

SpecPair == InitPair /\ [][NextPair]_vars

MaxLogLines == 2   \* lines of a dry-run log

\* File names: plain, with a blank, with an arrow, with an arrow between
\* blanks.
Names == {<<"x">>, <<"x", Blank, "y">>, <<"x", Arrow, "y">>, <<"x", Blank, Arrow, Blank, "y">>}

\* The duplicates lie under root B, their keepers under root A.
LogPaths(d) == {[absolute |-> TRUE, parts |-> <<d, n>>] : n \in Names}
FromPaths == LogPaths(<<"B">>)
ToPaths == LogPaths(<<"A">>)

\* The lines a log may hold: those a dry run prints for a pair of paths, and
\* a blank line, an untagged line, a tagged line without an arrow, without a
\* source, and of the "Would move" form.
LogLines ==
    {DryRunLine(from, to) : from \in FromPaths, to \in ToPaths}
        \cup {<<Blank>>,
              <<"x", Blank, Arrow, Blank, "y">>,
              <<Tag, Blank, Slash, "x">>,
              <<Tag, Blank, Arrow, Blank, Slash, "x">>,
              <<Tag, Blank, WouldMove, Blank, Slash, "x", Blank, Arrow, Blank, Slash, "y">>}

\* No deduplication runs while a companion script does.
NoRun ==
    /\ args = DefaultArgs(<<>>)
    /\ hashes = [d \in {} |-> <<>>]
    /\ disk = [p \in AllPaths |-> NoFile]
    /\ disk0 = disk
    /\ faults = 0
    /\ pc = "off"
    /\ base_index = 0
    /\ line_no = 0
    /\ kept = NoKept
    /\ stats = ZeroStats(FALSE)
    /\ stdout = <<>>
    /\ stderr = <<>>
    /\ exit_code = -1
    /\ decisions = <<>>
    /\ earlier = [ran |-> FALSE, stdout |-> <<>>]

InitLog ==
    /\ NoRun
    /\ \E log \in SeqsUpTo(LogLines, MaxLogLines) :
          tool = [name |-> "log", log |-> log, check |-> <<>>, delete |-> <<>>]

NextLog == CheckParse \/ DeleteParse

SpecLog == InitLog /\ [][NextLog]_vars

MaxSize == 12    \* small file sizes the offsets are asked for
MaxBlock == 4    \* small block sizes
MaxSpots == 3    \* small numbers of interior spots

\* Sizes, block sizes and spot counts: the small ones, and those of the
\* script (files above 512 KiB, blocks of 32 KiB, 10 spots).
Sizes == (0..MaxSize) \cup {SAMPLE_BLOCK_BYTES, SMALL_COMPARE_THRESHOLD + 1, 1000000, 1000001}
Blocks == (0..MaxBlock) \cup {SAMPLE_BLOCK_BYTES}
Spots == (0..MaxSpots) \cup {SAMPLE_SPOTS}

InitOffsets ==
    /\ NoRun
    /\ \E size \in Sizes, block_size \in Blocks, spots \in Spots :
          tool = [name |-> "offsets", size |-> size, block_size |-> block_size,
                  spots |-> spots, offsets |-> <<>>, done |-> FALSE]

SpecOffsets == InitOffsets /\ [][SampleOffsets]_vars

----------------------------------------------------------------------------
(* Vocabulary of the properties.                                           *)

\* The return points of try_delete; the three that delete, or would.
TryDeleteOutcomes ==
    {"Kept", "SkippedMissing", "FailedKeeperMissing", "FailedStat",
     "SkippedTooSmall", "SkippedZeroContent", "SkippedSizeMismatch",
     "SkippedContentMismatch", "Printed", "WouldDelete", "FailedUnlink", "Deleted"}
DeleteOutcomes == {"Deleted", "WouldDelete", "Printed"}

Decisions == {decisions[i] : i \in 1..Len(decisions)}

RealRun == ~args.dry_run /\ ~args.print_delete

\* A step that examined one record, and the decision it appended.
Examines == pc = "roots" /\ Len(decisions') = Len(decisions) + 1
Decided == decisions'[Len(decisions')]

----------------------------------------------------------------------------
\* C1: a real run never unlinks a file whose resolved path lies under the
\* first root, whatever the roots and the manifests are.
C1_NoDeletionFromRoot0 ==
    \A dec \in Decisions :
        dec.outcome = "Deleted" => ~IsUnder(dec.entry.path, base_paths[1])

\* C2: every record handed to try_delete as the deletion candidate has
\* base_index >= 1.
C2_CandidateIndexPositive ==
    \A dec \in Decisions :
        dec.outcome \in TryDeleteOutcomes => dec.entry.base_index >= 1

\* A candidate of a later root was handed to try_delete and deleted.
C2_Witness ==
    \E dec \in Decisions : dec.outcome = "Deleted" /\ dec.entry.base_index >= 1

\* A record met a keeper of its own base_index.
SameTier(dec) == dec.keeper # NoEntry /\ dec.entry.base_index = dec.keeper.base_index

\* No deletion, real or simulated, is decided under a digest that one
\* base_index alone lists.
OneTierDigestsKeepAll(decs) ==
    \A i \in 1..Len(decs) :
        decs[i].outcome \in DeleteOutcomes =>
            \E j \in 1..Len(decs) :
                /\ decs[j].entry.digest = decs[i].entry.digest
                /\ decs[j].entry.base_index # decs[i].entry.base_index

\* C3 as claimed: a record whose base_index equals its keeper's is never
\* handed to try_delete and leaves the keeper unchanged, and a digest that
\* one root alone lists deletes nothing.
C3_SameTierKeeperUnchanged ==
    [][Examines =>
         /\ SameTier(Decided) =>
               /\ Decided.outcome \notin TryDeleteOutcomes
               /\ disk' = disk
               /\ kept' = kept
         /\ OneTierDigestsKeepAll(decisions')]_vars

\* C3 amended: such a record is never handed to try_delete, no file is
\* deleted and nothing is printed; the keeper is unchanged unless its file
\* no longer exists while the record's file does, and then the record
\* becomes the keeper; a digest that one base_index alone lists deletes
\* nothing.
C3_SameTierNeverDeleted ==
    [][Examines =>
         /\ SameTier(Decided) =>
               /\ Decided.outcome \notin TryDeleteOutcomes
               /\ disk' = disk
               /\ stdout' = stdout
               /\ \/ kept' = kept
                  \/ /\ ~Exists(disk, Decided.keeper.path)
                     /\ Exists(disk, Decided.entry.path)
                     /\ kept' = SetKept(kept, Decided.entry)
         /\ OneTierDigestsKeepAll(decisions')]_vars

\* Two different existing files of one digest and one base_index met, and
\* both are still there.
C3_Witness ==
    \E dec \in Decisions :
        /\ SameTier(dec)
        /\ dec.outcome = "SkippedSamePriority"
        /\ dec.entry.path # dec.keeper.path
        /\ Exists(disk, dec.entry.path)
        /\ Exists(disk, dec.keeper.path)

\* C4: when try_delete unlinks a file, its keeper is another path, which
\* existed when the planner checked it and exists after the unlink; only the
\* candidate's file is removed.
C4_KeeperSurvives ==
    [][disk' # disk =>
         /\ Examines
         /\ Decided.outcome = "Deleted"
         /\ Decided.keeper = kept[Decided.entry.digest]
         /\ Decided.entry.path # Decided.keeper.path
         /\ Exists(disk, Decided.keeper.path)
         /\ Exists(disk', Decided.keeper.path)
         /\ Exists(disk, Decided.entry.path)
         /\ disk' = [disk EXCEPT ![Decided.entry.path] = NoFile]]_vars

\* A file was unlinked and the keeper it was paired with exists.
C4_Witness ==
    \E dec \in Decisions :
        /\ dec.outcome = "Deleted"
        /\ ~Exists(disk, dec.entry.path)
        /\ Exists(disk, dec.keeper.path)

\* C5: a step deletes a file, or prints a line to stdout, only for a
\* candidate of at least min_bytes, in every mode; the size floor skips
\* only files strictly smaller than min_bytes.
C5_SizeGate ==
    [][Examines =>
         /\ (disk' # disk \/ stdout' # stdout \/ Decided.outcome \in DeleteOutcomes)
               => disk[Decided.entry.path].size >= args.min_bytes
         /\ Decided.outcome = "SkippedTooSmall"
               => disk[Decided.entry.path].size < args.min_bytes]_vars

\* A candidate of exactly min_bytes was deleted, and in another run one
\* byte smaller would have been skipped.
C5_Witness ==
    \E dec \in Decisions :
        /\ dec.outcome = "Deleted"
        /\ disk0[dec.entry.path].size = args.min_bytes

\* The non-zero bytes of c at the offsets lo..hi-1.
BytesIn(c, lo, hi) == {p \in c.ones : lo <= p /\ p < hi}

\* What the verifier is documented to compare: a file of at most 512 KiB
\* whole; of a larger one the first 256 KiB, the 128 KiB around the middle
\* and the last 128 KiB.
ComparedRegionsAgree(ca, cb) ==
    IF ca.size <= 524288
    THEN ca.ones = cb.ones
    ELSE /\ BytesIn(ca, 0, 262144) = BytesIn(cb, 0, 262144)
         /\ BytesIn(ca, (ca.size \div 2) - 65536, (ca.size \div 2) + 65536)
              = BytesIn(cb, (ca.size \div 2) - 65536, (ca.size \div 2) + 65536)
         /\ BytesIn(ca, ca.size - 131072, ca.size) = BytesIn(cb, ca.size - 131072, ca.size)

\* C6: with naive mode off, a candidate is deleted, printed or reported as
\* would-delete only if its size equals the keeper's and every compared
\* region holds the same bytes; a pair that differs in size or in a compared
\* region leaves the candidate on disk.
C6_VerifiedBeforeDelete ==
    [][(Examines /\ ~args.naive /\ Decided.outcome \in TryDeleteOutcomes) =>
         LET ca == disk[Decided.entry.path]
             cb == disk[Decided.keeper.path]
             verified == ca.size = cb.size /\ ComparedRegionsAgree(ca, cb)
         IN  /\ Decided.outcome \in DeleteOutcomes => verified
             /\ ~verified => /\ Decided.outcome \notin DeleteOutcomes
                             /\ disk' = disk
                             /\ stdout' = stdout]_vars

\* A file larger than the full-compare threshold was deleted after the
\* sampled comparison.
C6_Witness ==
    \E dec \in Decisions :
        /\ dec.outcome = "Deleted"
        /\ ~args.naive
        /\ disk0[dec.entry.path].size > SMALL_COMPARE_THRESHOLD
        /\ disk0[dec.entry.path].size = disk0[dec.keeper.path].size

VerifyFailures == {"stat_entry", "stat_a", "stat_b", "compare"}

\* C7: when the stat of the candidate, a stat inside files_same_size, or the
\* open or a read of the comparison fails, the record ends as failed or
\* skipped, no file is deleted, nothing is printed, and the loop goes on to
\* the next record.
C7_FailsClosed ==
    [][(Examines /\ Decided.hit \cap VerifyFailures # {}) =>
         /\ Decided.outcome \in {"FailedStat", "SkippedSizeMismatch", "SkippedContentMismatch"}
         /\ disk' = disk
         /\ stdout' = stdout
         /\ stats'.deleted = stats.deleted
         /\ pc' = "roots"
         /\ <<base_index', line_no'>> = Advance(base_paths, hashes, base_index, line_no + 1)]_vars

\* The comparison of two identical files failed, and the candidate is still
\* on disk after the run ended normally.
C7_Witness ==
    \E dec \in Decisions :
        /\ "compare" \in dec.hit
        /\ disk0[dec.entry.path] = disk0[dec.keeper.path]
        /\ Exists(disk, dec.entry.path)
        /\ pc = "exit"
        /\ exit_code = 0

\* C8: with dry_run or print_delete set, the files that exist and their
\* contents are at every point of the run what they were when it started.
C8_DryRunChangesNothing ==
    (args.dry_run \/ args.print_delete) => disk = disk0

\* A dry run or a print-only run reported a deletion and ended.
C8_Witness ==
    /\ pc = "exit"
    /\ \E dec \in Decisions : dec.outcome \in {"WouldDelete", "Printed"}
    /\ disk = disk0

\* The <<from, to>> pairs of the stdout lines that carry the given tag.
Pairs(out, tag) == {<<out[i][2], out[i][3]>> : i \in {j \in 1..Len(out) : out[j][1] = tag}}

Unlinked == {p \in DOMAIN disk0 : Exists(disk0, p) /\ ~Exists(disk, p)}

\* C9: once a dry run and then a real run on the same roots, manifests and
\* files have both ended, the pairs the dry run reported are the pairs the
\* real run deleted, and the reported paths are the files that are gone.
C9_DryRunPredictsRealRun ==
    (earlier.ran /\ pc = "exit" /\ exit_code = 0) =>
        /\ Pairs(earlier.stdout, "[DRY RUN]") = Pairs(stdout, "->")
        /\ {pr[1] : pr \in Pairs(earlier.stdout, "[DRY RUN]")} = Unlinked

\* decisions[i] is the first record of its digest whose file existed when
\* the run started.
FirstExisting(i) ==
    /\ Exists(disk0, decisions[i].entry.path)
    /\ \A h \in 1..(i - 1) :
          decisions[h].entry.digest = decisions[i].entry.digest
             => ~Exists(disk0, decisions[h].entry.path)

\* decisions[j] lists, in a later root, another existing file with the
\* digest, the size and the content of decisions[i]'s, of min_bytes or more.
CopyInLaterRoot(i, j) ==
    LET K == decisions[i].entry
        R == decisions[j].entry
    IN  /\ R.digest = K.digest
        /\ K.base_index < R.base_index
        /\ R.path # K.path
        /\ Exists(disk0, R.path)
        /\ disk0[R.path] = disk0[K.path]
        /\ disk0[R.path].size >= args.min_bytes

\* The later copy is gone, the earlier one is there, and stdout names both.
DeletedInFavourOf(i, j) ==
    LET K == decisions[i].entry
        R == decisions[j].entry
    IN  /\ ~Exists(disk, R.path)
        /\ Exists(disk, K.path)
        /\ \E n \in 1..Len(stdout) : stdout[n] = <<"->", R.path, K.path>>

Ended == pc = "exit" /\ exit_code = 0

OneDigestOnly(i, j) ==
    \A n \in 1..Len(decisions) :
        decisions[n].entry.path \in {decisions[i].entry.path, decisions[j].entry.path}
            => decisions[n].entry.digest = decisions[i].entry.digest

\* The all-zero gate lets the file through.
PassesZeroGate(c) == ~(args.ignore_pure_zero /\ c.ones = {})

NoFailure == \A dec \in Decisions : dec.hit = {}

Digests == {dec.entry.digest : dec \in Decisions}

Listed(g, p) == {dec.entry.base_index : dec \in {x \in Decisions : x.entry.digest = g /\ x.entry.path = p}}

Survivors(g) == {p \in DOMAIN disk : Listed(g, p) # {} /\ Exists(disk, p)}

Existed(g) == {p \in DOMAIN disk0 : Listed(g, p) # {} /\ Exists(disk0, p)}

\* C11 as claimed: after a real run at most one file listed under a digest
\* survives, and it is listed at the lowest base_index of the copies that
\* existed.
C11_OneSurvivorPerDigest ==
    (Ended /\ RealRun) =>
        \A g \in Digests :
            /\ Cardinality(Survivors(g)) <= 1
            /\ \A p \in Survivors(g) : \A q \in Existed(g) :
                  \E b \in Listed(g, p) : \A c \in Listed(g, q) : b <= c

\* Why try_delete leaves a candidate alone although its keeper exists: the
\* size floor, the all-zero exemption, a size or content difference, or a
\* failed stat, read or unlink.
Ineligible(dec) ==
    LET ca == disk0[dec.entry.path]
        cb == disk0[dec.keeper.path]
    IN  \/ ca.size < args.min_bytes
        \/ args.ignore_pure_zero /\ ca.ones = {}
        \/ ca.size # cb.size
        \/ ~args.naive /\ ~ComparedRegionsAgree(ca, cb)
        \/ dec.hit # {}

\* C11 amended: after a real run, a record of a digest whose file survives
\* either was or became the digest's keeper, or named the keeper's own path,
\* or had the base_index of the keeper it met, or was ineligible against
\* that keeper; and every file that was deleted was deleted in favour of a
\* keeper of strictly lower base_index whose file existed at that moment.
C11_SurvivorsAccountedFor ==
    (Ended /\ RealRun) =>
        \A n \in 1..Len(decisions) :
            LET dec == decisions[n]
            IN  /\ Exists(disk, dec.entry.path) =>
                      \/ dec.keeper = NoEntry
                      \/ dec.entry.path = dec.keeper.path
                      \/ dec.entry.base_index = dec.keeper.base_index
                      \/ Ineligible(dec)
                      \/ \E m \in 1..(n - 1) :
                            /\ decisions[m].outcome = "Deleted"
                            /\ decisions[m].entry.path = dec.keeper.path
                /\ dec.outcome = "Deleted" =>
                      /\ dec.keeper.base_index < dec.entry.base_index
                      /\ Exists(disk0, dec.keeper.path)
                      /\ \A m \in 1..(n - 1) :
                            decisions[m].outcome = "Deleted"
                               => decisions[m].entry.path # dec.keeper.path

\* Three roots held equal copies; after the real run exactly the first
\* root's copy is left.
C11_Witness ==
    /\ Ended
    /\ RealRun
    /\ \E g \in Digests :
          /\ Cardinality(Existed(g)) = 3
          /\ Cardinality(Survivors(g)) = 1
          /\ \A p \in Survivors(g) : 0 \in Listed(g, p)

\* C12: at every point of the run, the keeper of a digest has the smallest
\* base_index among the records of that digest examined so far whose file
\* exists at that point.
C12_KeeperHasLowestIndex ==
    \A g \in DOMAIN kept :
        \A dec \in Decisions :
            (dec.entry.digest = g /\ Exists(disk, dec.entry.path))
                => kept[g].base_index <= dec.entry.base_index

\* C13: every record the parser yields names a path inside the root whose
\* manifest listed it.
C13_RecordsStayInsideRoot ==
    \A dec \in Decisions :
        IsUnder(dec.entry.path, base_paths[dec.entry.base_index + 1])

\* The command line is invalid: --min-bytes is negative, or some root is no
\* directory with a hashes.txt.
Invalid ==
    \/ args.min_bytes < 0
    \/ \E i \in 1..Len(args.paths) : Resolve(args.paths[i]) \notin DOMAIN hashes

\* C14: on an invalid command line main leaves with status 1 in its first
\* step, and no record is examined, no file deleted and nothing printed to
\* stdout, whichever root is the invalid one; status 1 occurs for no other
\* reason.
C14_InvalidInvocationAborts ==
    /\ (Invalid /\ pc # "main") =>
          /\ pc = "exit"
          /\ exit_code = 1
          /\ decisions = <<>>
          /\ stats.examined = 0
          /\ disk = disk0
          /\ stdout = <<>>
    /\ exit_code = 1 => Invalid

\* The last of several roots lacks its manifest while the first is valid and
\* holds a file; main left with status 1.
C14_Witness ==
    /\ pc = "exit"
    /\ exit_code = 1
    /\ Len(args.paths) >= 2
    /\ Resolve(args.paths[1]) \in DOMAIN hashes
    /\ Resolve(args.paths[Len(args.paths)]) \notin DOMAIN hashes
    /\ Exists(disk, FileOf(args.paths[1]))

\* The well-formed lines among the first n of a manifest, and in the
\* manifests of the first n roots of the command line (a root listed twice
\* is read twice).
RECURSIVE Yielded(_, _, _)
Yielded(lines, base_path, n) ==
    IF n = 0 THEN 0
    ELSE Yielded(lines, base_path, n - 1)
         + (IF ParseLine(lines[n], base_path, 0, n).kind = "yield" THEN 1 ELSE 0)

RECURSIVE YieldedByRoots(_)
YieldedByRoots(n) ==
    IF n = 0 THEN 0
    ELSE YieldedByRoots(n - 1)
         + Yielded(hashes[base_paths[n]], base_paths[n], Len(hashes[base_paths[n]]))

\* The loop body can run on the line it is at: the line yields no record, or
\* there is an outcome of its I/O that the remaining failures allow.
BodyCanRun ==
    (pc = "roots" /\ base_index < Len(base_paths)) =>
        LET base_path == base_paths[base_index + 1]
            parsed == ParseLine(hashes[base_path][line_no + 1], base_path,
                                base_index, line_no + 1)
            s0 == [kept |-> kept, stats |-> stats, stdout |-> stdout,
                   stderr |-> stderr, disk |-> disk, outcome |-> "", hit |-> {}]
        IN  parsed.kind = "yield" =>
               \E io \in FaultSets(faults) : Examine(parsed.entry, s0, args, io).hit = io

\* C15: a run on a valid command line ends, whatever files are missing and
\* whichever stat, read or unlink fails, with status 0 and with
\* stats.examined equal to the number of well-formed lines of the manifests
\* of all roots, each examined once; and the loop body is never stuck on a
\* line.
C15_RunCompletes ==
    /\ []BodyCanRun
    /\ (pc = "main" /\ ~Invalid) ~>
          (/\ pc = "exit"
           /\ exit_code = 0
           /\ stats.examined = YieldedByRoots(Len(base_paths))
           /\ Len(decisions) = stats.examined)

\* A run ended with status 0 although an unlink failed, and another with a
\* malformed line and a missing file.
C15_Witness ==
    /\ Ended
    /\ stats.examined = YieldedByRoots(Len(base_paths))
    /\ \/ \E dec \in Decisions : dec.outcome = "FailedUnlink"
       \/ /\ stats.examined >= 2
          /\ stats.missing_files >= 1
          /\ stats.examined < Len(hashes[base_paths[Len(base_paths)]]) + 1

\* The decisions with the given outcome, in the order they were taken.
With(outcome) == SelectSeq(decisions, LAMBDA dec : dec.outcome = outcome)

C17_SimulatedDeletionsCounted ==
    (Ended /\ (args.dry_run \/ args.print_delete)) => stats.deleted = Len(stdout)

\* C18: without --naive the naive argument is off; with it, no content is
\* read, and a candidate is deleted, printed or reported only if it and its
\* keeper exist and its size is at least min_bytes and equals the keeper's.
C18_NaiveKeepsOtherGates ==
    [][/\ ~DefaultArgs(args.paths).naive
       /\ (Examines /\ args.naive /\ Decided.outcome \in TryDeleteOutcomes) =>
            LET ca == disk[Decided.entry.path]
                cb == disk[Decided.keeper.path]
            IN  /\ "compare" \notin Decided.hit
                /\ Decided.outcome # "SkippedContentMismatch"
                /\ Decided.outcome \in DeleteOutcomes =>
                      /\ Exists(disk, Decided.entry.path)
                      /\ Exists(disk, Decided.keeper.path)
                      /\ ca.size >= args.min_bytes
                      /\ ca.size = cb.size
                /\ (ca.size # cb.size \/ ca.size < args.min_bytes) =>
                      /\ disk' = disk
                      /\ stdout' = stdout]_vars

\* In naive mode a file was deleted whose content differs from its keeper's
\* in a region the verifier would have compared.
C18_Witness ==
    /\ args.naive
    /\ \E dec \in Decisions :
          /\ dec.outcome = "Deleted"
          /\ disk0[dec.entry.path].size = disk0[dec.keeper.path].size
          /\ ~ComparedRegionsAgree(disk0[dec.entry.path], disk0[dec.keeper.path])

\* The three sampled segments of two files of size S hold the same bytes.
SampledAgree(ca, cb, S) ==
    /\ BytesIn(ca, 0, 262144) = BytesIn(cb, 0, 262144)
    /\ BytesIn(ca, (S \div 2) - 65536, (S \div 2) + 65536)
         = BytesIn(cb, (S \div 2) - 65536, (S \div 2) + 65536)
    /\ BytesIn(ca, S - 131072, S) = BytesIn(cb, S - 131072, S)

\* C19: with naive off, a pair of equal size S that reaches the content
\* gate without an I/O failure passes it exactly when the files are equal
\* byte for byte if S <= 512 KiB (524288 included), and exactly when the
\* three sampled segments agree if S >= 512 KiB + 1.
C19_StrategyBySize ==
    [][(/\ Examines
        /\ ~args.naive
        /\ Decided.hit = {}
        /\ Decided.outcome \in DeleteOutcomes \cup {"SkippedContentMismatch"}) =>
         LET ca == disk[Decided.entry.path]
             cb == disk[Decided.keeper.path]
             S == ca.size
         IN  /\ S = cb.size
             /\ S <= 524288 =>
                   (Decided.outcome \in DeleteOutcomes <=> ca.ones = cb.ones)
             /\ S >= 524289 =>
                   (Decided.outcome \in DeleteOutcomes <=> SampledAgree(ca, cb, S))]_vars

\* A file of 512 KiB + 1 bytes was deleted although a byte outside the
\* sampled segments differs from its keeper's.
C19_Witness ==
    /\ ~args.naive
    /\ \E dec \in Decisions :
          /\ dec.outcome = "Deleted"
          /\ disk0[dec.entry.path].size = SMALL_COMPARE_THRESHOLD + 1
          /\ disk0[dec.entry.path] # disk0[dec.keeper.path]

\* C20: with ignore_pure_zero set, a candidate that holds only zero bytes is
\* never deleted, printed or reported as would-delete, in every mode and
\* also when reading it for the zero check fails.
C20_AllZeroNeverDeleted ==
    [][(/\ Examines
        /\ args.ignore_pure_zero
        /\ Decided.outcome \in TryDeleteOutcomes
        /\ Exists(disk, Decided.entry.path)
        /\ disk[Decided.entry.path].ones = {}) =>
         /\ Decided.outcome \notin DeleteOutcomes
         /\ disk' = disk
         /\ stdout' = stdout]_vars

\* The step reads a line of a manifest; the line it reads and its root.
ReadsLine == pc = "roots" /\ pc' = "roots"

CurRoot == base_paths[base_index + 1]

CurLine == hashes[CurRoot][line_no + 1]

Yields == Len(decisions') = Len(decisions) + 1

\* The line without the blanks at its ends, and where its tokens (maximal
\* runs without a blank) begin.
Content(line) ==
    LET inked == {i \in 1..Len(line) : line[i] # Blank}
    IN  IF inked = {} THEN <<>>
        ELSE SubSeq(line, CHOOSE i \in inked : \A j \in inked : i <= j,
                          CHOOSE i \in inked : \A j \in inked : i >= j)

TokenStarts(c) == {i \in 1..Len(c) : c[i] # Blank /\ (i = 1 \/ c[i - 1] = Blank)}

Silent(line) == Content(line) = <<>> \/ Content(line)[1] = Hash

\* Only the position moves and the parse goes on.
LineSkipped ==
    /\ ~Yields
    /\ UNCHANGED <<kept, stats, stdout, disk, decisions>>
    /\ <<base_index', line_no'>> = Advance(base_paths, hashes, base_index, line_no + 1)

\* C21 as claimed: blank and comment lines are skipped silently; a line
\* yields a record only if it has exactly two tokens; a line of one token or
\* of three or more is logged and skipped, and the parse goes on.
C21_ExactlyTwoTokens ==
    [][ReadsLine =>
         LET n == Cardinality(TokenStarts(Content(CurLine)))
         IN  /\ Silent(CurLine) => (LineSkipped /\ stderr' = stderr)
             /\ Yields => (~Silent(CurLine) /\ n = 2)
             /\ (~Silent(CurLine) /\ n # 2) =>
                   (LineSkipped /\ Len(stderr') = Len(stderr) + 1)]_vars

\* C21 amended: blank and comment lines are skipped silently; a line of one
\* token is logged and skipped; a line of two or more tokens is split at the
\* first run of blanks into the digest and the path, which is all the rest
\* of the line, blanks included, and yields the record of that digest and
\* path unless the path is absolute, when it is logged and skipped; the
\* parse goes on in every case.
C21_SplitAtFirstBlank ==
    [][ReadsLine =>
         LET c == Content(CurLine)
             starts == TokenStarts(c)
             second == CHOOSE i \in starts \ {1} : \A j \in starts \ {1} : i <= j
             digest == SubSeq(c, 1, (CHOOSE i \in 1..Len(c) :
                                        c[i] = Blank /\ \A j \in 1..(i - 1) : c[j] # Blank) - 1)
             rel == normalize_relative_path(SubSeq(c, second, Len(c)))
         IN  /\ <<base_index', line_no'>> = Advance(base_paths, hashes, base_index, line_no + 1)
             /\ Silent(CurLine) => (LineSkipped /\ stderr' = stderr)
             /\ (~Silent(CurLine) /\ Cardinality(starts) = 1) =>
                   (LineSkipped /\ Len(stderr') = Len(stderr) + 1)
             /\ (~Silent(CurLine) /\ Cardinality(starts) >= 2) =>
                   IF rel.absolute
                   THEN LineSkipped /\ Len(stderr') = Len(stderr) + 1
                   ELSE /\ Yields
                        /\ Decided.entry =
                              HashEntry(digest, Resolve(PathJoin(CurRoot, rel)),
                                        base_index, line_no + 1)]_vars

\* A line of three tokens yielded a record whose file name holds a blank.
C21_Witness ==
    \E dec \in Decisions :
        LET name == dec.entry.path.parts[Len(dec.entry.path.parts)]
        IN  \E i \in 1..Len(name) : name[i] = Blank

\* C22: each parser returns, for the line a dry run prints for a pair of
\* paths, that pair; and the two parsers return the same for every line.
C22_ParsersRoundTrip ==
    /\ \A i \in 1..Len(tool.check) : \A from \in FromPaths, to \in ToPaths :
          tool.log[i] = DryRunLine(from, to) =>
              tool.check[i] = [pair |-> <<from, to>>, error |-> ""]
    /\ \A i \in 1..Len(tool.delete) : \A from \in FromPaths, to \in ToPaths :
          tool.log[i] = DryRunLine(from, to) =>
              tool.delete[i] = [pair |-> <<from, to>>, error |-> ""]
    /\ \A i \in 1..Min(Len(tool.check), Len(tool.delete)) :
          tool.check[i] = tool.delete[i]

\* The step called try_delete; the counters as the loop left them when it
\* made the call (it has counted the record as examined).
CallsTryDelete == Examines /\ Decided.outcome \in TryDeleteOutcomes

StatsAtCall == [stats EXCEPT !.examined = @ + 1]

\* C23 as claimed: each call of try_delete changes at least one counter,
\* whichever outcome it ends in, Kept (same path) included.
C23_EveryCallCounts ==
    [][CallsTryDelete => stats' # StatsAtCall]_vars

\* C23 amended: a call of try_delete for two different paths changes at
\* least one counter, duplicates, which it increments by one whichever
\* outcome it ends in; the call for one and the same path ends in Kept and
\* changes no counter, the record being counted by the loop as examined only.
C23_CallCountsUnlessSamePath ==
    [][CallsTryDelete =>
         IF Decided.entry.path = Decided.keeper.path
         THEN Decided.outcome = "Kept" /\ stats' = StatsAtCall
         ELSE /\ Decided.outcome # "Kept"
              /\ stats'.duplicates = stats.duplicates + 1
              /\ stats' # StatsAtCall]_vars

\* A run called try_delete for one path twice listed, and for two paths.
C23_Witness ==
    /\ \E dec \in Decisions : dec.outcome = "Kept" /\ dec.entry.path = dec.keeper.path
    /\ \E dec \in Decisions :
          dec.outcome \in TryDeleteOutcomes \ {"Kept"} /\ dec.entry.path # dec.keeper.path

\* C24: a digest enters kept only through an examined record whose file
\* exists at that moment; a record of a digest not in kept whose file is
\* missing is counted in missing_files, is not stored and leaves kept as it
\* was; a record of a digest not in kept whose file exists, whatever its
\* root, becomes the keeper and its file stays.
C24_UnseenToKept ==
    [][/\ (DOMAIN kept' # DOMAIN kept) =>
             /\ Examines
             /\ Exists(disk, Decided.entry.path)
             /\ DOMAIN kept' = DOMAIN kept \cup {Decided.entry.digest}
       /\ (Examines /\ Decided.entry.digest \notin DOMAIN kept) =>
             IF Exists(disk, Decided.entry.path)
             THEN /\ kept' = SetKept(kept, Decided.entry)
                  /\ disk' = disk
                  /\ stats' = StatsAtCall
             ELSE /\ kept' = kept
                  /\ disk' = disk
                  /\ stats' = [StatsAtCall EXCEPT !.missing_files = @ + 1]]_vars

\* The first record of a digest named a missing file and a record of a
\* later root became the keeper, whose file exists.
C24_Witness ==
    \E i, j \in 1..Len(decisions) :
        /\ i < j
        /\ decisions[i].outcome = "MissingUnseen"
        /\ decisions[j].outcome = "FirstKeeper"
        /\ decisions[i].entry.digest = decisions[j].entry.digest
        /\ decisions[i].entry.base_index < decisions[j].entry.base_index
        /\ \A n \in 1..(i - 1) : decisions[n].entry.digest # decisions[i].entry.digest
        /\ decisions[j].entry.digest \in DOMAIN kept
        /\ kept[decisions[j].entry.digest] = decisions[j].entry
        /\ Exists(disk, decisions[j].entry.path)

\* C25: a record of a digest whose keeper's file does not exist replaces
\* the keeper when its own file exists, whatever its base_index, and is not
\* handed to try_delete (no file and no counter but examined changes); when
\* its own file is missing too the keeper stays and missing_files is
\* incremented.
C25_Repromotion ==
    [][(/\ Examines
        /\ Decided.entry.digest \in DOMAIN kept
        /\ ~Exists(disk, kept[Decided.entry.digest].path)) =>
            /\ Decided.outcome \notin TryDeleteOutcomes
            /\ disk' = disk
            /\ stdout' = stdout
            /\ IF Exists(disk, Decided.entry.path)
               THEN /\ kept' = SetKept(kept, Decided.entry)
                    /\ stats' = StatsAtCall
               ELSE /\ kept' = kept
                    /\ stats' = [StatsAtCall EXCEPT !.missing_files = @ + 1]]_vars

\* A record of a higher base_index replaced a keeper whose file was gone,
\* and a record found both files gone.
C25_Witness ==
    /\ \E dec \in Decisions :
          /\ dec.outcome = "Repromoted"
          /\ dec.entry.base_index > dec.keeper.base_index
          /\ kept[dec.entry.digest] = dec.entry
    /\ \E dec \in Decisions : dec.outcome = "BothMissing"

\* C26: the records are examined in ascending base_index and, within one
\* root, in ascending line number; every record that found a keeper found
\* one of a base_index not above its own; the lower-wins branch is never
\* taken.
C26_AscendingOrder ==
    /\ \A i, j \in 1..Len(decisions) :
          i < j =>
             \/ decisions[i].entry.base_index < decisions[j].entry.base_index
             \/ /\ decisions[i].entry.base_index = decisions[j].entry.base_index
                /\ decisions[i].entry.line_no < decisions[j].entry.line_no
    /\ \A dec \in Decisions :
          /\ dec.keeper # NoEntry => dec.keeper.base_index <= dec.entry.base_index
          /\ dec.outcome # "LowerWins"
    /\ \A g \in DOMAIN kept : pc = "roots" => kept[g].base_index <= base_index

\* Three roots were read, one with two records, and a record met a keeper
\* of a lower root.
C26_Witness ==
    /\ \E i, j \in 1..Len(decisions) :
          /\ i < j
          /\ decisions[i].entry.base_index = decisions[j].entry.base_index
    /\ \E dec \in Decisions : dec.entry.base_index = 2
    /\ \E dec \in Decisions :
          dec.keeper # NoEntry /\ dec.keeper.base_index < dec.entry.base_index

\* The step took a pair of files of one size through the content gate with
\* naive off and without a failing read: files_equivalent returned TRUE when
\* the outcome is one of the deletions, FALSE when it is the mismatch.
ComparesContent ==
    /\ Examines
    /\ ~args.naive
    /\ Decided.hit = {}
    /\ Decided.outcome \in DeleteOutcomes \cup {"SkippedContentMismatch"}

Equivalent == Decided.outcome \in DeleteOutcomes

\* The offsets at which exactly one of two files holds a non-zero byte.
Differing(ca, cb) == (ca.ones \ cb.ones) \cup (cb.ones \ ca.ones)

\* C27: for two readable files of one size S <= 512 KiB, S = 0 included,
\* files_equivalent with naive off returns TRUE exactly when the files hold
\* the same bytes; files that differ in a single byte, the last included,
\* give FALSE and the candidate stays.
C27_SmallFilesComparedWhole ==
    [][(ComparesContent /\ disk[Decided.entry.path].size <= SMALL_COMPARE_THRESHOLD) =>
         LET ca == disk[Decided.entry.path]
             cb == disk[Decided.keeper.path]
         IN  /\ ca.size = cb.size
             /\ Equivalent <=> ca = cb
             /\ Cardinality(Differing(ca, cb)) = 1 =>
                   /\ ~Equivalent
                   /\ disk' = disk]_vars

\* Two empty files were compared and found equal.
C27_Witness ==
    \E dec \in Decisions :
        /\ ~args.naive
        /\ dec.hit = {}
        /\ dec.outcome = "Deleted"
        /\ disk0[dec.entry.path] = Empty
        /\ disk0[dec.keeper.path] = Empty

\* The three regions of a file of size S that the sampled comparison reads,
\* as [from, to) pairs.
Regions(S) ==
    << <<0, 262144>>,
       <<(S \div 2) - 65536, (S \div 2) + 65536>>,
       <<S - 131072, S>> >>

\* C28: for a size S > 512 KiB the sampled comparison reads exactly the
\* regions [0, 256 KiB), [S/2 - 64 KiB, S/2 + 64 KiB) and [S - 128 KiB, S);
\* each lies within [0, S); the middle one starts at S/2 - 64 KiB clamped to
\* [0, S - 128 KiB]; and the comparison returns TRUE exactly when the two
\* files hold the same bytes in the three regions.
C28_ThreeRegions ==
    [][(ComparesContent /\ disk[Decided.entry.path].size > SMALL_COMPARE_THRESHOLD) =>
         LET ca == disk[Decided.entry.path]
             cb == disk[Decided.keeper.path]
             S == ca.size
             seg == SampleSegments(S)
         IN  /\ S = cb.size
             /\ Len(seg) = 3
             /\ \A i \in 1..3 :
                   /\ <<seg[i][1], seg[i][1] + seg[i][2]>> = Regions(S)[i]
                   /\ 0 <= seg[i][1]
                   /\ seg[i][1] + seg[i][2] <= S
             /\ seg[2][1] = Max(0, Min((S \div 2) - 65536, S - 131072))
             /\ Equivalent <=>
                   \A i \in 1..3 :
                       BytesIn(ca, Regions(S)[i][1], Regions(S)[i][2])
                         = BytesIn(cb, Regions(S)[i][1], Regions(S)[i][2])]_vars

\* Two files of a size above 512 KiB that differ in one byte of the middle
\* region only were found to differ.
C28_Witness ==
    \E dec \in Decisions :
        LET ca == disk0[dec.entry.path]
            cb == disk0[dec.keeper.path]
        IN  /\ ~args.naive
            /\ dec.hit = {}
            /\ dec.outcome = "SkippedContentMismatch"
            /\ ca.size = cb.size
            /\ ca.size > SMALL_COMPARE_THRESHOLD
            /\ \E p \in 0..(ca.size - 1) :
                  /\ Differing(ca, cb) = {p}
                  /\ Regions(ca.size)[2][1] <= p
                  /\ p < Regions(ca.size)[2][2]

\* C29: the list sampled_offsets returns is a function of size, block and
\* spots alone; for every size > block it holds no offset twice, holds 0 and
\* size - block, and every offset lies in [0, size - block].
C29_OffsetsCoverBothEnds ==
    (tool.name = "offsets" /\ tool.done) =>
        LET offsets == tool.offsets
            last == tool.size - tool.block_size
        IN  /\ offsets = sampled_offsets(tool.size, tool.block_size, tool.spots)
            /\ tool.size > tool.block_size =>
                  /\ \A i, j \in 1..Len(offsets) : offsets[i] = offsets[j] => i = j
                  /\ \E i \in 1..Len(offsets) : offsets[i] = 0
                  /\ \E i \in 1..Len(offsets) : offsets[i] = last
                  /\ \A i \in 1..Len(offsets) : 0 <= offsets[i] /\ offsets[i] <= last

\* The offsets of a file larger than a block were computed with interior
\* spots, some of which fell on an offset already listed.
C29_Witness ==
    /\ tool.name = "offsets"
    /\ tool.done
    /\ tool.size > tool.block_size
    /\ tool.spots > 0
    /\ Len(tool.offsets) >= 3
    /\ Len(tool.offsets) < tool.spots + 3

\* The outcome try_delete ends in when its gates are decided in the order
\* missing candidate, missing keeper, stat failure, too small, all-zero,
\* size mismatch, content mismatch, delete; hit holds the I/O operations
\* that failed during the call.
FirstGate(entry, keeper, d, a, hit) ==
    LET ca == d[entry.path]
        cb == d[keeper.path]
    IN  IF ~Exists(d, entry.path) THEN {"SkippedMissing"}
        ELSE IF ~Exists(d, keeper.path) THEN {"FailedKeeperMissing"}
        ELSE IF "stat_entry" \in hit THEN {"FailedStat"}
        ELSE IF ca.size < a.min_bytes THEN {"SkippedTooSmall"}
        ELSE IF a.ignore_pure_zero /\ ca.ones = {} /\ "zero_read" \notin hit
        THEN {"SkippedZeroContent"}
        ELSE IF "stat_a" \in hit \/ "stat_b" \in hit \/ ca.size # cb.size
        THEN {"SkippedSizeMismatch"}
        ELSE IF ~a.naive /\ ("compare" \in hit \/ ~ComparedRegionsAgree(ca, cb))
        THEN {"SkippedContentMismatch"}
        ELSE {"Printed", "WouldDelete", "FailedUnlink", "Deleted"}

\* The counter, if any, that an outcome of try_delete increments besides
\* duplicates.
CounterOf(outcome) ==
    CASE outcome \in {"SkippedMissing", "FailedKeeperMissing", "FailedStat"} -> {"missing_files"}
      [] outcome = "SkippedTooSmall" -> {"skipped_small"}
      [] outcome = "SkippedZeroContent" -> {"skipped_zero"}
      [] outcome \in {"Printed", "Deleted"} -> {"deleted"}
      [] OTHER -> {}

Counters == {"examined", "duplicates", "deleted", "skipped_small", "skipped_zero",
             "missing_files"}

\* C30: a call of try_delete for two different paths increments duplicates
\* by exactly one and at most one of missing_files, skipped_small,
\* skipped_zero and deleted by one, the one of the first gate that decides
\* in the fixed order; deleted + skipped_small + skipped_zero <= duplicates
\* <= examined holds before and after every step; no counter decreases.
C30_CounterDiscipline ==
    [][/\ (CallsTryDelete /\ Decided.entry.path # Decided.keeper.path) =>
             /\ Decided.outcome \in FirstGate(Decided.entry, Decided.keeper, disk, args,
                                              Decided.hit)
             /\ Cardinality(CounterOf(Decided.outcome)) <= 1
             /\ \A c \in Counters :
                   stats'[c] = stats[c] + (IF c \in {"examined", "duplicates"}
                                                \cup CounterOf(Decided.outcome)
                                           THEN 1 ELSE 0)
       /\ stats.deleted + stats.skipped_small + stats.skipped_zero <= stats.duplicates
       /\ stats.duplicates <= stats.examined
       /\ stats'.deleted + stats'.skipped_small + stats'.skipped_zero <= stats'.duplicates
       /\ stats'.duplicates <= stats'.examined
       /\ \A c \in Counters : stats'[c] >= stats[c]]_vars

\* A run of three records found two duplicates, deleted one and kept the
\* other for its content.
C30_Witness ==
    /\ stats.examined = 3
    /\ stats.duplicates = 2
    /\ stats.deleted = 1
    /\ \E dec \in Decisions : dec.outcome = "SkippedContentMismatch"
    /\ \E dec \in Decisions : dec.outcome = "Deleted"

====
